---- MODULE Spec2Model ----
(***************************************************************************)
(* A model of bigtools' chromosome grouper (src/src/bedparser.rs) and of   *)
(* its BigWig query path (src/src/bigwig/bigwigread.rs,                    *)
(* src/src/bigwigread.rs).                                                 *)
(*                                                                         *)
(* Option<T> is modelled as a sequence of length 0 (None) or 1 (Some(x)).  *)
(* A BedEntry is identified by the 1-based position of its record in the   *)
(* source, so that a lost or duplicated record is visible.                 *)
(* A chromosome name is a sequence of bytes.                               *)
(***************************************************************************)
EXTENDS Integers, Sequences, FiniteSets, TLC

\* Longest record source that is enumerated.
MaxLen == 3
\* Most sub-streams the caller keeps undropped at a time.
MaxLive == 2

VARIABLES
    input,      \* the record source's content: what each stream.next() call finds
    cell,       \* BedParser.state: Arc<AtomicCell<Option<BedParserState>>>
    groups,     \* every ChromGroup created so far, with what it yielded
    panicked,   \* a call has panicked
    lastCall,   \* the last call made on the grouper or a sub-stream, and its result
    misuse,     \* the caller called the grouper's next() before the previous
                \* sub-stream was drained and dropped
    pstate,     \* BedParser::next's local `state` while the call runs on its thread
    reading,    \* the parties that are inside advance(), reading the record source
    tpanic,     \* the parties whose thread has panicked
    last_chrom, \* ChromGroupReadStreamingIteratorImpl.last_chrom
    chrom_ids,  \* ChromGroupReadStreamingIteratorImpl.chrom_ids: Option<IdMap>
    chrom_map,  \* ChromGroupReadStreamingIteratorImpl.chrom_map (its keys)
    returned,   \* what each call of the streaming iterator's next() returned
    disk,       \* what opening and reading the file's head finds
    attach,     \* what BigWigRead::from returned: "none" before it is called
    endianness, \* BigWigRead.info.header.endianness: "none" while there is no reader
    cache,      \* BigWigRead.cache: the file chunks the reader holds in memory
    clones,     \* the readers made by clone(), each with its handle and cache
    file,       \* the BigWig file's data blocks, in file order
    zoom_headers, \* BBIFileInfo.zoom_headers
    reader,     \* BigWigRead.reader: Option of the open handle and its position
    ioLog,      \* the opens, seeks and reads of the last call on the reader
    iter,       \* the IntervalIter that borrows the reader, if any
    out,        \* what each next() of that IntervalIter returned
    rcall       \* the last call on the reader and what it returned

concVars == <<pstate, reading, tpanic>>
parserVars == <<input, cell, groups, panicked, lastCall, misuse, concVars>>
iterVars == <<last_chrom, chrom_ids, chrom_map, returned>>
openVars == <<disk, attach, endianness>>
cloneVars == <<cache, clones>>
readerVars == <<openVars, cloneVars, file, zoom_headers, reader, ioLog, iter, out, rcall>>
vars == <<parserVars, concVars, iterVars, readerVars>>

(***************************************************************************)
(* Chromosome names and the record source                                  *)
(***************************************************************************)
\* Three names whose byte-wise order (<<1>> < <<1,0>> < <<2>>) differs from
\* their order by length and from their numeric order.
Names == {<<1>>, <<1, 0>>, <<2>>}

Rec(n) == [kind |-> "rec", chrom |-> n]
\* A blank line: BedStream::next returns Ok(None) and the reader moves on.
Blank == [kind |-> "blank", chrom |-> <<>>]
\* A read that fails with an io::Error.
IoErr == [kind |-> "err", chrom |-> <<>>]
Items == {Rec(n) : n \in Names} \cup {Blank, IoErr}

SeqsUpTo(S, n) == UNION {[1..k -> S] : k \in 0..n}
Inputs == SeqsUpTo(Items, MaxLen)

\* StreamingChromValues::next at stream position pos (records consumed so far).
StreamNext(pos) ==
    IF pos >= Len(input)
    THEN [res |-> "none", chrom |-> <<>>, idx |-> 0, pos |-> pos]
    ELSE LET it == input[pos + 1]
         IN [res |-> IF it.kind = "rec" THEN "some"
                     ELSE IF it.kind = "blank" THEN "none" ELSE "err",
             chrom |-> it.chrom, idx |-> pos + 1, pos |-> pos + 1]

(***************************************************************************)
(* BedParserState                                                          *)
(***************************************************************************)
ChromOptNone == [tag |-> "None", name |-> <<>>]
ChromOptSame == [tag |-> "Same", name |-> <<>>]
ChromOptDiff(n) == [tag |-> "Diff", name |-> n]

\* BedParser::new
NewState ==
    [stream |-> 0, curr_chrom |-> <<>>, next_chrom |-> ChromOptNone,
     curr_val |-> <<>>, next_val |-> <<>>]

\* The lookahead's ChromOpt, always Diff: the mutant of NextChromOf.
NextChromOfAlwaysDiff(curr_chrom, chrom) == ChromOptDiff(chrom)

\* advance, the classification of the record just read against curr_chrom.
NextChromOf(curr_chrom, chrom) ==
    IF curr_chrom # <<>>
    THEN IF curr_chrom[1] # chrom THEN ChromOptDiff(chrom) ELSE ChromOptSame
    ELSE ChromOptDiff(chrom)

\* advance, up to the read of the stream: the lookahead becomes current.
Shift(s) ==
    [s EXCEPT !.curr_val = s.next_val,
              !.next_val = <<>>,
              !.next_chrom = ChromOptNone,
              !.curr_chrom = IF s.next_chrom.tag = "Diff" THEN <<s.next_chrom.name>>
                             ELSE IF s.next_chrom.tag = "Same" THEN s.curr_chrom
                             ELSE <<>>]

\* BedParserState::advance: [ok |-> FALSE] when stream.next() failed, with the
\* state as the early return left it.
RECURSIVE advance(_)
advance(s) ==
    LET s1 == Shift(s)
        r == StreamNext(s1.stream)
        s2 == [s1 EXCEPT !.stream = r.pos]
    IN IF r.res = "err" THEN [ok |-> FALSE, st |-> s2]
       ELSE LET s3 == IF r.res = "some"
                      THEN [s2 EXCEPT !.next_val = <<r.idx>>,
                                      !.next_chrom = NextChromOf(s2.curr_chrom, r.chrom)]
                      ELSE s2
            IN IF s3.curr_val = <<>> /\ s3.next_val # <<>>
               THEN advance(s3)
               ELSE [ok |-> TRUE, st |-> s3]

\* state.curr_val.take() without the take: the mutant of TakeCurrVal.
TakeCurrValKeep(s) == s

\* state.curr_val.take(): the state it leaves.
TakeCurrVal(s) == [s EXCEPT !.curr_val = <<>>]

(***************************************************************************)
(* Calls and their results                                                 *)
(***************************************************************************)
Call(op, g, ret, val, chrom) ==
    [op |-> op, g |-> g, ret |-> ret, val |-> val, chrom |-> chrom]

NewGroup(chrom) ==
    [chrom |-> chrom, curr_state |-> <<>>, live |-> TRUE, handed |-> TRUE,
     yielded |-> <<>>, drained |-> FALSE]

LiveGroups == {g \in DOMAIN groups : groups[g].live}

\* The caller kept to the protocol up to now: every sub-stream was drained
\* (next() until none) and dropped before the grouper's next() was called.
Undisciplined == \E g \in DOMAIN groups : groups[g].live \/ ~groups[g].drained

\* The mutant of BedParser_next: an empty cell reads as the end of the input.
BedParser_nextEmptyIsEnd(c) ==
    IF c = <<>> THEN [ret |-> "none", cell |-> <<>>, chrom |-> <<>>]
    ELSE IF c[1].next_chrom.tag = "Same"
         THEN [ret |-> "panic", cell |-> <<>>, chrom |-> <<>>]
         ELSE LET a == advance(c[1])
              IN IF ~a.ok THEN [ret |-> "err", cell |-> <<>>, chrom |-> <<>>]
                 ELSE IF a.st.curr_chrom = <<>>
                      THEN [ret |-> "none", cell |-> <<a.st>>, chrom |-> <<>>]
                      ELSE [ret |-> "group", cell |-> <<a.st>>,
                            chrom |-> a.st.curr_chrom]

\* BedParser::next on the cell content c: what it returns and leaves in the cell.
BedParser_next(c) ==
    IF c = <<>> THEN [ret |-> "panic", cell |-> <<>>, chrom |-> <<>>]
    ELSE IF c[1].next_chrom.tag = "Same"
         THEN [ret |-> "panic", cell |-> <<>>, chrom |-> <<>>]
         ELSE LET a == advance(c[1])
              IN IF ~a.ok THEN [ret |-> "err", cell |-> <<>>, chrom |-> <<>>]
                 ELSE IF a.st.curr_chrom = <<>>
                      THEN [ret |-> "none", cell |-> <<a.st>>, chrom |-> <<>>]
                      ELSE [ret |-> "group", cell |-> <<a.st>>,
                            chrom |-> a.st.curr_chrom]

\* ChromGroup::next on the state st the sub-stream holds.
ChromGroup_next(st) ==
    IF st.curr_val # <<>>
    THEN [ret |-> "some", val |-> st.curr_val, st |-> TakeCurrVal(st)]
    ELSE IF st.next_chrom.tag = "Diff"
         THEN [ret |-> "none", val |-> <<>>, st |-> st]
         ELSE LET a == advance(st)
              IN IF ~a.ok THEN [ret |-> "err", val |-> <<>>, st |-> a.st]
                 ELSE [ret |-> IF a.st.curr_val = <<>> THEN "none" ELSE "some",
                       val |-> a.st.curr_val, st |-> TakeCurrVal(a.st)]

\* The mutant of ChromGroup_peek: the lookahead is shown whatever its chromosome.
ChromGroup_peekAnyChrom(st) == st.next_val

\* ChromGroup::peek on the state st the sub-stream holds.
ChromGroup_peek(st) ==
    IF st.next_chrom.tag = "Diff" THEN <<>> ELSE st.next_val

(***************************************************************************)
(* Actions of the grouper and its sub-streams                              *)
(***************************************************************************)
\* BedParser::next, called by the owner of the grouper.
ParserNext ==
    /\ ~panicked
    /\ Cardinality(LiveGroups) < MaxLive
    /\ LET r == BedParser_next(cell)
       IN /\ cell' = r.cell
          /\ panicked' = (r.ret = "panic")
          /\ groups' = IF r.ret = "group" THEN Append(groups, NewGroup(r.chrom[1]))
                       ELSE groups
          /\ lastCall' = Call("ParserNext", 0, r.ret, <<>>, r.chrom)
          /\ misuse' = (misuse \/ Undisciplined)
    /\ UNCHANGED <<input, concVars, iterVars, readerVars>>

\* ChromGroup::next on sub-stream g.
GroupNext(g) ==
    /\ ~panicked
    /\ groups[g].live
    /\ LET grp == groups[g]
           take == grp.curr_state = <<>>
       IN IF take /\ cell = <<>>
          THEN /\ panicked' = TRUE
               /\ lastCall' = Call("GroupNext", g, "panic", <<>>, <<>>)
               /\ UNCHANGED <<cell, groups>>
          ELSE LET st == IF take THEN cell[1] ELSE grp.curr_state[1]
                   r == ChromGroup_next(st)
               IN /\ cell' = IF take THEN <<>> ELSE cell
                  /\ groups' = [groups EXCEPT ![g] =
                         [grp EXCEPT !.curr_state = <<r.st>>,
                                     !.yielded = IF r.ret = "some"
                                                 THEN Append(@, r.val[1]) ELSE @,
                                     !.drained = @ \/ r.ret = "none"]]
                  /\ lastCall' = Call("GroupNext", g, r.ret, r.val, <<>>)
                  /\ UNCHANGED panicked
    /\ UNCHANGED <<input, misuse, concVars, iterVars, readerVars>>

\* ChromGroup::peek on sub-stream g.
GroupPeek(g) ==
    /\ ~panicked
    /\ groups[g].live
    /\ LET grp == groups[g]
           take == grp.curr_state = <<>>
       IN IF take /\ cell = <<>>
          THEN /\ panicked' = TRUE
               /\ lastCall' = Call("GroupPeek", g, "panic", <<>>, <<>>)
               /\ UNCHANGED <<cell, groups>>
          ELSE LET st == IF take THEN cell[1] ELSE grp.curr_state[1]
                   v == ChromGroup_peek(st)
               IN /\ cell' = IF take THEN <<>> ELSE cell
                  /\ groups' = [groups EXCEPT ![g] = [grp EXCEPT !.curr_state = <<st>>]]
                  /\ lastCall' = Call("GroupPeek", g,
                                      IF v = <<>> THEN "none" ELSE "some", v, <<>>)
                  /\ UNCHANGED panicked
    /\ UNCHANGED <<input, misuse, concVars, iterVars, readerVars>>

\* The mutant of ChromGroup_drop: the lookahead is not given back.
ChromGroup_dropLookahead(curr_state, c) ==
    IF curr_state # <<>> THEN <<[curr_state[1] EXCEPT !.next_val = <<>>]>> ELSE c

\* Drop for ChromGroup on the cell content c: what it leaves in the cell.
ChromGroup_drop(curr_state, c) == IF curr_state # <<>> THEN curr_state ELSE c

\* Drop for ChromGroup: the state it holds goes back to the cell.
GroupDrop(g) ==
    /\ ~panicked
    /\ groups[g].live
    /\ cell' = ChromGroup_drop(groups[g].curr_state, cell)
    /\ groups' = [groups EXCEPT ![g] = [@ EXCEPT !.curr_state = <<>>, !.live = FALSE]]
    /\ lastCall' = Call("GroupDrop", g, "unit", <<>>, <<>>)
    /\ UNCHANGED <<input, panicked, misuse, concVars, iterVars, readerVars>>

(***************************************************************************)
(* The chromosome-group streaming iterator                                 *)
(***************************************************************************)
\* Rust's Ord on String: lexicographic on bytes, a proper prefix being less.
RECURSIVE StrCmp(_, _)
StrCmp(a, b) ==
    IF a = <<>> THEN (IF b = <<>> THEN 0 ELSE -1)
    ELSE IF b = <<>> THEN 1
    ELSE IF a[1] < b[1] THEN -1
    ELSE IF a[1] > b[1] THEN 1
    ELSE StrCmp(Tail(a), Tail(b))

\* The mutant of StrGe: shorter names first, then byte-wise.
StrGeShortlex(c, chrom) ==
    Len(c) > Len(chrom) \/ (Len(c) = Len(chrom) /\ StrCmp(c, chrom) >= 0)

\* c >= chrom
StrGe(c, chrom) == StrCmp(c, chrom) >= 0

\* IdMap::get_id: the existing id, or the next free one (ids count from 0).
\* An IdMap is the sequence of its names in assignment order.
GetId(ids, name) ==
    IF \E i \in DOMAIN ids : ids[i] = name
    THEN [id |-> (CHOOSE i \in DOMAIN ids : ids[i] = name) - 1, ids |-> ids]
    ELSE [id |-> Len(ids), ids |-> Append(ids, name)]

\* The error messages: a format and the values formatted into it.
MsgNone == [fmt |-> "", args |-> <<>>]
MsgNotSorted == [fmt |-> "Input bedGraph not sorted by chromosome", args |-> <<>>]
MsgUnknownChrom(chrom) ==
    [fmt |-> "Input bedGraph contains chromosome that isn't in the input chrom sizes: {}",
     args |-> <<chrom>>]

Ret(kind, chrom, id, msg, map) ==
    [kind |-> kind, chrom |-> chrom, id |-> id, msg |-> msg, map |-> map]

\* The mutant of OnGroup: the id is assigned before the chrom sizes are looked up.
OnGroupIdFirst(chrom, last, ids, cmap) ==
    IF last # <<>> /\ StrGe(last[1], chrom)
    THEN [ret |-> Ret("InvalidInput", <<chrom>>, -1, MsgNotSorted, <<>>), ids |-> ids]
    ELSE LET i == GetId(ids, chrom)
         IN IF chrom \notin cmap
            THEN [ret |-> Ret("InvalidInput", <<chrom>>, -1, MsgUnknownChrom(chrom), <<>>),
                  ids |-> i.ids]
            ELSE [ret |-> Ret("group", <<chrom>>, i.id, MsgNone, <<>>), ids |-> i.ids]

\* ChromGroupReadStreamingIteratorImpl::next, the arm Some((chrom, group)), after
\* last_chrom.replace: last is the previous last_chrom, ids the id map.
OnGroup(chrom, last, ids, cmap) ==
    IF last # <<>> /\ StrGe(last[1], chrom)
    THEN [ret |-> Ret("InvalidInput", <<chrom>>, -1, MsgNotSorted, <<>>), ids |-> ids]
    ELSE IF chrom \notin cmap
         THEN [ret |-> Ret("InvalidInput", <<chrom>>, -1, MsgUnknownChrom(chrom), <<>>),
               ids |-> ids]
         ELSE LET i == GetId(ids, chrom)
              IN [ret |-> Ret("group", <<chrom>>, i.id, MsgNone, <<>>), ids |-> i.ids]

\* The mutant of OnExhausted: the id map is returned and kept.
OnExhaustedKeep(ids) ==
    IF ids # <<>>
    THEN [ret |-> Ret("idmap", <<>>, -1, MsgNone, ids[1]), ids |-> ids]
    ELSE [ret |-> Ret("none", <<>>, -1, MsgNone, <<>>), ids |-> <<>>]

\* ChromGroupReadStreamingIteratorImpl::next, the arm None: self.chrom_ids.take()
OnExhausted(ids) ==
    IF ids # <<>>
    THEN [ret |-> Ret("idmap", <<>>, -1, MsgNone, ids[1]), ids |-> <<>>]
    ELSE [ret |-> Ret("none", <<>>, -1, MsgNone, <<>>), ids |-> <<>>]

\* BigBedWrite::begin_processing_chrom: the sub-stream goes to the write pipeline,
\* which reads it (GroupNext, GroupPeek) and drops it (GroupDrop).
BeginProcessingChrom(chrom, handed) ==
    [chrom |-> chrom, curr_state |-> <<>>, live |-> handed, handed |-> handed,
     yielded |-> <<>>, drained |-> FALSE]

\* Calls of the streaming iterator's next() that are followed.
MaxCalls == MaxLen + 3

\* ChromGroupReadStreamingIteratorImpl::next
ItNext ==
    /\ ~panicked
    /\ Cardinality(LiveGroups) < MaxLive
    /\ Len(returned) < MaxCalls
    /\ LET r == BedParser_next(cell)
       IN /\ cell' = r.cell
          /\ misuse' = (misuse \/ Undisciplined)
          /\ lastCall' = Call("ParserNext", 0, r.ret, <<>>, r.chrom)
          /\ CASE r.ret = "panic" ->
                    /\ panicked' = TRUE
                    /\ UNCHANGED <<groups, last_chrom, chrom_ids, returned>>
               [] r.ret = "err" ->
                    /\ returned' = Append(returned, Ret("IoError", <<>>, -1, MsgNone, <<>>))
                    /\ UNCHANGED <<groups, panicked, last_chrom, chrom_ids>>
               [] r.ret = "none" ->
                    /\ chrom_ids' = OnExhausted(chrom_ids).ids
                    /\ returned' = Append(returned, OnExhausted(chrom_ids).ret)
                    /\ UNCHANGED <<groups, panicked, last_chrom>>
               [] r.ret = "group" ->
                    IF chrom_ids = <<>>
                    THEN /\ panicked' = TRUE
                         /\ UNCHANGED <<groups, last_chrom, chrom_ids, returned>>
                    ELSE LET o == OnGroup(r.chrom[1], last_chrom, chrom_ids[1], chrom_map)
                         IN /\ last_chrom' = r.chrom
                            /\ chrom_ids' = <<o.ids>>
                            /\ returned' = Append(returned, o.ret)
                            /\ groups' = Append(groups,
                                   BeginProcessingChrom(r.chrom[1], o.ret.kind = "group"))
                            /\ UNCHANGED panicked
    /\ UNCHANGED <<input, chrom_map, concVars, readerVars>>

\* The chrom sizes the caller supplies: all names, or all but one.
ChromMaps == {Names} \cup {Names \ {n} : n \in Names}

\* get_chromgroupstreamingiterator
InitIter ==
    /\ last_chrom = <<>>
    /\ chrom_ids = << <<>> >>
    /\ chrom_map \in ChromMaps
    /\ returned = <<>>

(***************************************************************************)
(* The BigWig file                                                         *)
(***************************************************************************)
\* Length of the chromosomes: coordinates range over 0..MaxCoord.
MaxCoord == 3
\* Most data blocks of a file, and most records of a block.
MaxBlocks == 2
MaxItems == MaxBlocks

\* std::f32::NAN; the stored values are positive.
NaN == -1

Value(start, end, value) == [start |-> start, end |-> end, value |-> value]

\* Runs of records (start < end <= chrom length) sorted and disjoint.
Intervals ==
    {iv \in [start : 0..MaxCoord, end : 0..MaxCoord] : iv.start < iv.end}
Chains ==
    {c \in SeqsUpTo(Intervals, MaxItems) :
        \A i \in 1..(Len(c) - 1) : c[i].end <= c[i + 1].start}

\* The section that stores the records c of chromosome chrom_id as section_type:
\* 1 (bedGraph) stores start, end, value; 2 (varStep) start, value;
\* 3 (fixedStep) the value only. The value is filled in by Place.
Section(chrom_id, section_type, c, item_step, item_span) ==
    [chrom_id |-> chrom_id,
     chrom_start |-> IF c = <<>> THEN 0 ELSE c[1].start,
     chrom_end |-> IF c = <<>> THEN 0 ELSE c[Len(c)].end,
     item_step |-> item_step, item_span |-> item_span,
     section_type |-> section_type, item_count |-> Len(c),
     items |-> [i \in DOMAIN c |->
                  Value(IF section_type \in {1, 2} THEN c[i].start ELSE 0,
                        IF section_type = 1 THEN c[i].end ELSE 0, 0)],
     offset |-> 0, size |-> 0, short |-> 0]

\* A section whose bytes cannot all be read: the read of the block fails when
\* `short` bytes are still missing.
ShortSections ==
    {[Section(0, 1, <<[start |-> 0, end |-> 1]>>, 0, 0) EXCEPT !.short = n] :
        n \in 1..2}

\* A section of an unknown type: its items mean nothing.
UnknownSections ==
    {[Section(0, 4, c, 0, 0) EXCEPT !.chrom_end = MaxCoord] :
        c \in {<<>>, <<[start |-> 0, end |-> 1]>>}}

\* A section of another chromosome.
ForeignSections == {Section(1, 1, <<[start |-> 0, end |-> MaxCoord]>>, 0, 0)}

Sections ==
    {Section(0, 1, c, 0, 0) : c \in Chains}
        \cup {Section(0, 2, c, 0, span) :
                 c \in {d \in Chains : d # <<>>}, span \in 1..MaxCoord}
        \cup {Section(0, 3, c, step, span) :
                 c \in {d \in Chains : d # <<>>}, step \in 1..MaxCoord, span \in 1..MaxCoord}
        \cup UnknownSections \cup ForeignSections \cup ShortSections

\* The records a section stores, by the format (spec, 3. DATA MODEL).
Stored(blk) ==
    IF blk.section_type = 1
    THEN [i \in DOMAIN blk.items |->
            Value(blk.items[i].start, blk.items[i].end, blk.items[i].value)]
    ELSE IF blk.section_type = 2
    THEN [i \in DOMAIN blk.items |->
            Value(blk.items[i].start, blk.items[i].start + blk.item_span,
                  blk.items[i].value)]
    ELSE IF blk.section_type = 3
    THEN [i \in DOMAIN blk.items |->
            Value(blk.chrom_start + (i - 1) * blk.item_step,
                  blk.chrom_start + (i - 1) * blk.item_step + blk.item_span,
                  blk.items[i].value)]
    ELSE <<>>

\* The section's header agrees with its records, which lie in the chromosome.
WellFormed(blk) ==
    LET r == Stored(blk)
    IN \A i \in DOMAIN r :
          /\ r[i].start < r[i].end /\ r[i].end <= MaxCoord
          /\ i < Len(r) => r[i].end <= r[i + 1].start
          /\ i = Len(r) => r[i].end = blk.chrom_end

\* Blocks follow each other in the file from offset 1; each record gets its own
\* value: 10 * block + index.
RECURSIVE OffsetOf(_, _)
OffsetOf(f, b) == IF b = 1 THEN 1 ELSE OffsetOf(f, b - 1) + 1 + Len(f[b - 1].items)
Place(f) ==
    [b \in DOMAIN f |->
        [f[b] EXCEPT !.offset = OffsetOf(f, b),
                     !.size = 1 + Len(f[b].items),
                     !.items = [i \in DOMAIN @ |-> [@[i] EXCEPT !.value = 10 * b + i]]]]

\* The records of a chromosome are sorted over the blocks of the file.
SortedOver(f) ==
    \A a, b \in DOMAIN f :
        (a < b /\ f[a].chrom_id = f[b].chrom_id /\ f[a].section_type \in 1..3
              /\ f[b].section_type \in 1..3 /\ f[a].items # <<>> /\ f[b].items # <<>>)
            => f[a].chrom_end <= f[b].chrom_start

Files ==
    {Place(f) : f \in {g \in SeqsUpTo({x \in Sections : WellFormed(x)}, MaxBlocks) :
                          g # <<>> /\ SortedOver(g)}}

\* The file offset of the data index (the R-tree), after the last block.
IndexOffset == OffsetOf(file, Len(file) + 1)

(***************************************************************************)
(* BigWigRead: the handle and its input/output                             *)
(***************************************************************************)
\* rd is [h |-> BigWigRead.reader, log |-> the I/O done in this call].
Io(op, at) == [op |-> op, at |-> at]

\* The mutant of ensure_reader: the file is opened at every call.
ensure_readerReopen(rd) ==
    [h |-> <<[pos |-> 0, endianness |-> endianness]>>,
     log |-> Append(rd.log, Io("open", 0))]

\* BigWigRead::ensure_reader
ensure_reader(rd) ==
    IF rd.h = <<>>
    THEN [h |-> <<[pos |-> 0, endianness |-> endianness]>>,
          log |-> Append(rd.log, Io("open", 0))]
    ELSE rd

Seek(rd, p) ==
    [h |-> <<[rd.h[1] EXCEPT !.pos = p]>>, log |-> Append(rd.log, Io("seek", p))]

ReadExact(rd, n) ==
    [h |-> <<[rd.h[1] EXCEPT !.pos = @ + n]>>,
     log |-> Append(rd.log, Io("read", rd.h[1].pos))]

\* BBIRead::search_cir_tree: the R-tree is read from the current position.
search_cir_tree(rd) ==
    [h |-> <<[rd.h[1] EXCEPT !.pos = @ + 1]>>,
     log |-> Append(rd.log, Io("search", rd.h[1].pos))]

\* R-tree overlap of a leaf with the query (spec, 4.7).
Overlaps(blk, chrom, start, end) ==
    blk.chrom_id = chrom /\ blk.chrom_end > start /\ blk.chrom_start < end

\* BBIRead::get_overlapping_blocks: the results it may give, each a superset of
\* the overlapping blocks.
BlockSearches(chrom, start, end) ==
    {S \in SUBSET (DOMAIN file) :
        \A b \in DOMAIN file : Overlaps(file[b], chrom, start, end) => b \in S}

\* The blocks S in file order.
RECURSIVE InFileOrder(_)
InFileOrder(S) ==
    IF S = {} THEN <<>>
    ELSE LET b == CHOOSE x \in S : \A y \in S : x <= y
         IN <<b>> \o InFileOrder(S \ {b})

\* BBIRead::get_overlapping_blocks: its input/output.
get_overlapping_blocks(rd) == search_cir_tree(Seek(ensure_reader(rd), IndexOffset))

\* The mutant of SeekBlock: the handle is taken to stand at the block.
SeekBlockNever(rd, blk, known_offset) == rd

\* get_vals, the seek: skipped when the known offset is the block's.
SeekBlock(rd, blk, known_offset) ==
    IF known_offset # blk.offset THEN Seek(rd, blk.offset) ELSE rd

\* get_block_values: value.end >= start && value.start <= end
Keeps(v, start, end) == v.end >= start /\ v.start <= end

Max(a, b) == IF a >= b THEN a ELSE b
Min(a, b) == IF a <= b THEN a ELSE b

\* The mutant of Clip: the end is not clipped.
ClipStartOnly(v, start, end) == [v EXCEPT !.start = Max(v.start, start)]

\* get_block_values: value.start.max(start), value.end.min(end)
Clip(v, start, end) == [v EXCEPT !.start = Max(v.start, start), !.end = Min(v.end, end)]

\* The mutant of SpanEnd: the span counts the start twice.
SpanEndInclusive(chrom_start, item_span) == chrom_start + item_span - 1

\* get_block_values, variable and fixed step: chrom_end = chrom_start + item_span
SpanEnd(chrom_start, item_span) == chrom_start + item_span

\* The mutant of StepOn: the fixed-step position does not move.
StepOnStuck(curr_start, item_step) == curr_start

\* get_block_values, fixed step: curr_start += item_step
StepOn(curr_start, item_step) == curr_start + item_step

\* get_block_values, the loop over the items from item i on: [ok |-> FALSE] at
\* an unknown section type.
RECURSIVE DecodeFrom(_, _, _, _, _, _)
DecodeFrom(blk, i, curr_start, values, start, end) ==
    IF i > blk.item_count THEN [ok |-> TRUE, vals |-> values]
    ELSE IF blk.section_type \notin {1, 2, 3} THEN [ok |-> FALSE, vals |-> <<>>]
    ELSE LET it == blk.items[i]
             value == IF blk.section_type = 1 THEN Value(it.start, it.end, it.value)
                      ELSE IF blk.section_type = 2
                      THEN Value(it.start, SpanEnd(it.start, blk.item_span), it.value)
                      ELSE Value(curr_start, SpanEnd(curr_start, blk.item_span),
                                 it.value)
             next_start == IF blk.section_type = 3
                           THEN StepOn(curr_start, blk.item_step) ELSE curr_start
         IN DecodeFrom(blk, i + 1, next_start,
                       IF Keeps(value, start, end)
                       THEN Append(values, Clip(value, start, end)) ELSE values,
                       start, end)

\* get_block_values (with get_vals / get_block_data): the block is read where
\* the handle stands after the seek; a read that fails leaves the handle where
\* the bytes ended, and bytes read elsewhere decode to an error.
get_block_values(rd, blk, known_offset, start, end) ==
    LET rd1 == SeekBlock(rd, blk, known_offset)
        at == rd1.h[1].pos
        rd2 == ReadExact(rd1, blk.size - blk.short)
        d == IF blk.short = 0 /\ at = blk.offset
             THEN DecodeFrom(blk, 1, blk.chrom_start, <<>>, start, end)
             ELSE [ok |-> FALSE, vals |-> <<>>]
    IN [ok |-> d.ok, vals |-> d.vals, rd |-> rd2,
        known_offset |-> IF d.ok THEN blk.offset + blk.size ELSE known_offset]

Yield(kind, v) == [kind |-> kind, v |-> v]
NoValue == Value(0, 0, 0)

\* IntervalIter::next
RECURSIVE IntervalIter_next(_, _)
IntervalIter_next(it, rd) ==
    IF it.vals # <<>>
    THEN IF it.vals[1] # <<>>
         THEN [ret |-> Yield("value", Head(it.vals[1])),
               it |-> [it EXCEPT !.vals = <<Tail(it.vals[1])>>], rd |-> rd]
         ELSE IntervalIter_next([it EXCEPT !.vals = <<>>], rd)
    ELSE IF it.blocks = <<>>
         THEN [ret |-> Yield("end", NoValue), it |-> it, rd |-> rd]
         ELSE LET it1 == [it EXCEPT !.blocks = Tail(it.blocks)]
                  r == get_block_values(rd, file[Head(it.blocks)], it.known_offset,
                                        it.start, it.end)
              IN IF r.ok
                 THEN IntervalIter_next(
                          [it1 EXCEPT !.vals = <<r.vals>>, !.known_offset = r.known_offset],
                          r.rd)
                 ELSE [ret |-> Yield("err", NoValue), it |-> it1, rd |-> r.rd]

\* The mutant of FillRange: the range is filled one place too far.
FillRangeInclusive(values, from, to, value) ==
    [i \in DOMAIN values |-> IF i > from /\ i <= to + 1 THEN value ELSE values[i]]

\* values: for i in &mut values[from..to] { *i = value } (the vector is 1-based here)
FillRange(values, from, to, value) ==
    [i \in DOMAIN values |-> IF i > from /\ i <= to THEN value ELSE values[i]]

\* values, the inner loop over the values of one block.
RECURSIVE FillAll(_, _, _)
FillAll(values, block_values, start) ==
    IF block_values = <<>> THEN [ok |-> TRUE, values |-> values]
    ELSE LET v == Head(block_values)
             from == v.start - start
             to == v.end - start
         IN IF from < 0 \/ from > to \/ to > Len(values)
            THEN [ok |-> FALSE, values |-> values]
            ELSE FillAll(FillRange(values, from, to, v.value), Tail(block_values), start)

\* values, the loop over the blocks: ret is "ok", "err" or "panic".
RECURSIVE ValuesLoop(_, _, _, _, _, _)
ValuesLoop(blocks, rd, known_offset, values, start, end) ==
    IF blocks = <<>> THEN [ret |-> "ok", values |-> values, rd |-> rd]
    ELSE LET r == get_block_values(rd, file[Head(blocks)], known_offset, start, end)
         IN IF ~r.ok THEN [ret |-> "err", values |-> <<>>, rd |-> r.rd]
            ELSE LET f == FillAll(values, r.vals, start)
                 IN IF ~f.ok THEN [ret |-> "panic", values |-> <<>>, rd |-> r.rd]
                    ELSE ValuesLoop(Tail(blocks), r.rd, r.known_offset, f.values,
                                    start, end)

(***************************************************************************)
(* Calls on the reader                                                     *)
(***************************************************************************)
RCall(op, ret, start, end, level, blocks, values) ==
    [op |-> op, ret |-> ret, start |-> start, end |-> end, level |-> level,
     blocks |-> blocks, values |-> values]

\* The size of a cached chunk, and the chunk an offset lies in.
ChunkSize == 8
ChunkOf(at) == at \div ChunkSize

\* The chunks a call leaves in the cache: the R-tree is read through the cache.
CachedBy(log) == {ChunkOf(log[k].at) : k \in {j \in DOMAIN log : log[j].op = "search"}}

Rd == [h |-> reader, log |-> <<>>]

\* The chromosome that is queried, and the queries made of it.
QueryChrom == 0
Queries == {q \in [start : 0..MaxCoord, end : 0..MaxCoord] : q.start <= q.end}

\* The caller drops what the last call returned (the iterator, whose borrow of
\* the reader ends, or the vector) before it makes another call.
Drop ==
    /\ iter # <<>> \/ rcall.op \in {"values", "get_zoom_interval"}
    /\ iter' = <<>>
    /\ out' = <<>>
    /\ ioLog' = <<>>
    /\ rcall' = RCall("drop", "ok", 0, 0, 0, {}, <<>>)
    /\ UNCHANGED cache
    /\ UNCHANGED <<openVars, clones, file, zoom_headers, reader, parserVars, iterVars>>

\* The reader is free: nothing borrows it and the last result was dropped.
Free ==
    /\ iter = <<>>
    /\ rcall.op \in {"from", "drop", "close", "clone", "clone_ensure_reader",
                     "ensure_reader"}

\* BigWigRead::get_interval
GetInterval(start, end) ==
    /\ Free
    /\ \E S \in BlockSearches(QueryChrom, start, end) :
          LET rd == get_overlapping_blocks(Rd)
          IN /\ reader' = rd.h
             /\ ioLog' = rd.log
             /\ iter' = <<[known_offset |-> 0, blocks |-> InFileOrder(S), vals |-> <<>>,
                           start |-> start, end |-> end]>>
             /\ out' = <<>>
             /\ rcall' = RCall("get_interval", "ok", start, end, 0, S, <<>>)
    /\ cache' = cache \cup CachedBy(ioLog')
    /\ UNCHANGED <<openVars, clones, file, zoom_headers, parserVars, iterVars>>

\* The calls of next() after the end of iteration that are followed.
Ended == Cardinality({k \in DOMAIN out : out[k].kind = "end"})

\* IntervalIter::next on the iterator that get_interval returned.
IterNextCall ==
    /\ iter # <<>>
    /\ Ended < 2
    /\ LET r == IntervalIter_next(iter[1], Rd)
       IN /\ iter' = <<r.it>>
          /\ reader' = r.rd.h
          /\ ioLog' = r.rd.log
          /\ out' = Append(out, r.ret)
    /\ UNCHANGED cache
    /\ UNCHANGED <<openVars, clones, file, zoom_headers, rcall, parserVars, iterVars>>

\* BigWigRead::values
Values(start, end) ==
    /\ Free
    /\ \E S \in BlockSearches(QueryChrom, start, end) :
          LET rd == ensure_reader(get_overlapping_blocks(Rd))
              r == ValuesLoop(InFileOrder(S), rd, rd.h[1].pos,
                              [i \in 1..(end - start) |-> NaN], start, end)
          IN /\ reader' = r.rd.h
             /\ ioLog' = r.rd.log
             /\ rcall' = RCall("values", r.ret, start, end, 0, S, r.values)
    /\ cache' = cache \cup CachedBy(ioLog')
    /\ UNCHANGED <<openVars, clones, file, zoom_headers, iter, out, parserVars, iterVars>>

\* The mutant of FindZoomHeader: the first header that is not coarser than asked.
FindZoomHeaderAtMost(headers, reduction_level) ==
    LET found == {i \in DOMAIN headers : headers[i].reduction_level <= reduction_level}
    IN IF found = {} THEN <<>>
       ELSE <<headers[CHOOSE i \in found : \A j \in found : i <= j]>>

\* get_zoom_interval: zoom_headers.iter().find(|h| h.reduction_level == reduction_level)
FindZoomHeader(headers, reduction_level) ==
    LET found == {i \in DOMAIN headers : headers[i].reduction_level = reduction_level}
    IN IF found = {} THEN <<>>
       ELSE <<headers[CHOOSE i \in found : \A j \in found : i <= j]>>

\* BigWigRead::get_zoom_interval
GetZoomInterval(start, end, reduction_level) ==
    /\ Free
    /\ LET zoom_header == FindZoomHeader(zoom_headers, reduction_level)
       IN IF zoom_header = <<>>
          THEN /\ rcall' = RCall("get_zoom_interval", "err", start, end,
                                 reduction_level, {}, <<>>)
               /\ ioLog' = <<>>
               /\ UNCHANGED reader
          ELSE LET rd == search_cir_tree(
                             Seek(ensure_reader(Rd), zoom_header[1].index_offset))
               IN /\ reader' = rd.h
                  /\ ioLog' = rd.log
                  /\ rcall' = RCall("get_zoom_interval", "ok", start, end,
                                    reduction_level, {}, <<>>)
    /\ cache' = cache \cup CachedBy(ioLog')
    /\ UNCHANGED <<openVars, clones, file, zoom_headers, iter, out, parserVars, iterVars>>

\* BigWigRead::close
Close ==
    /\ Free
    /\ reader' = <<>>
    /\ ioLog' = <<>>
    /\ rcall' = RCall("close", "ok", 0, 0, 0, {}, <<>>)
    /\ UNCHANGED cache
    /\ UNCHANGED <<openVars, clones, file, zoom_headers, iter, out, parserVars, iterVars>>

\* BigWigRead::ensure_reader, called by the user of the reader.
EnsureReader ==
    /\ Free
    /\ LET rd == ensure_reader(Rd)
       IN /\ reader' = rd.h
          /\ ioLog' = rd.log
    /\ rcall' = RCall("ensure_reader", "ok", 0, 0, 0, {}, <<>>)
    /\ UNCHANGED cache
    /\ UNCHANGED <<openVars, clones, file, zoom_headers, iter, out, parserVars, iterVars>>

\* The reduction levels of the zoom headers, and those that are asked for.
HeaderLevels == {1, 4}
AskedLevels == {1, 2, 4}

\* The zoom headers of a file: header i has its index at offset 10 * i.
ZoomHeaderLists ==
    {[i \in DOMAIN l |-> [reduction_level |-> l[i], index_offset |-> 10 * i]] :
        l \in SeqsUpTo(HeaderLevels, MaxBlocks)}

\* A file of one block with one record.
OneBlockFile == Place(<<Section(0, 1, <<[start |-> 0, end |-> 1]>>, 0, 0)>>)

(***************************************************************************)
(* Opening a file                                                          *)
(***************************************************************************)
\* The magic words, as the four bytes in big-endian order.
BigWigMagic == <<136, 143, 252, 38>>
BigBedMagic == <<135, 137, 242, 235>>
Reverse(b) == [i \in DOMAIN b |-> b[Len(b) + 1 - i]]

\* The first four bytes a file may have: the magics, their byte-reverses, and
\* bytes that are neither.
HeadBytes ==
    {BigWigMagic, Reverse(BigWigMagic), BigBedMagic, Reverse(BigBedMagic),
     <<0, 0, 0, 0>>, <<38, 143, 252, 136>>}

\* What is on disk: the first bytes, whether the chromosome tree can be read,
\* and where input/output fails ("open": reopen(); "header": before the magic
\* is read; "chroms": after the header was read).
Disks == [bytes : HeadBytes, chroms_ok : BOOLEAN,
          io_fail : {"none", "open", "header", "chroms"}]
GoodDisk == [bytes |-> Reverse(BigWigMagic), chroms_ok |-> TRUE, io_fail |-> "none"]

\* bbiread::read_info, the byte order: big-endian when the first bytes are a
\* magic as written, little-endian when they are its reverse.
EndiannessOf(bytes) == IF bytes \in {BigWigMagic, BigBedMagic} THEN "big" ELSE "little"

\* bbiread::read_info: Ok with the file type and the byte order, or a
\* BBIFileReadInfoError.
read_info(d) ==
    IF d.io_fail = "header" THEN [ok |-> FALSE, err |-> "IoError", filetype |-> "", endianness |-> "none"]
    ELSE IF d.bytes \notin {BigWigMagic, Reverse(BigWigMagic),
                            BigBedMagic, Reverse(BigBedMagic)}
    THEN [ok |-> FALSE, err |-> "UnknownMagic", filetype |-> "", endianness |-> "none"]
    ELSE IF d.io_fail = "chroms" THEN [ok |-> FALSE, err |-> "IoError", filetype |-> "", endianness |-> "none"]
    ELSE IF ~d.chroms_ok THEN [ok |-> FALSE, err |-> "InvalidChroms", filetype |-> "", endianness |-> "none"]
    ELSE [ok |-> TRUE, err |-> "",
          filetype |-> IF d.bytes \in {BigWigMagic, Reverse(BigWigMagic)}
                       THEN "BigWig" ELSE "BigBed",
          endianness |-> EndiannessOf(d.bytes)]

\* The mutant of FromReadInfoError: the two format errors are exchanged.
FromReadInfoErrorSwapped(error) ==
    CASE error = "UnknownMagic" -> "InvalidChroms"
      [] error = "InvalidChroms" -> "NotABigWig"
      [] error = "IoError" -> "IoError"

\* From<BBIFileReadInfoError> for BigWigReadAttachError
FromReadInfoError(error) ==
    CASE error = "UnknownMagic" -> "NotABigWig"
      [] error = "InvalidChroms" -> "InvalidChroms"
      [] error = "IoError" -> "IoError"

\* BigWigRead::from: "ok" or the BigWigReadAttachError.
BigWigRead_from(d) ==
    IF d.io_fail = "open" THEN "IoError"
    ELSE LET info == read_info(d)
         IN IF ~info.ok THEN FromReadInfoError(info.err)
            ELSE IF info.filetype # "BigWig" THEN "NotABigWig"
            ELSE "ok"

\* BigWigRead::from: no handle is held, nothing was asked yet.
InitReaderIdle ==
    /\ disk = GoodDisk
    /\ endianness = read_info(GoodDisk).endianness
    /\ cache = {}
    /\ clones = <<>>
    /\ attach = "ok"
    /\ reader = <<>>
    /\ ioLog = <<>>
    /\ iter = <<>>
    /\ out = <<>>
    /\ rcall = RCall("from", "ok", 0, 0, 0, {}, <<>>)

InitNoReader ==
    /\ file = OneBlockFile
    /\ zoom_headers = <<>>
    /\ InitReaderIdle

InitNoParser ==
    /\ input = <<>>
    /\ cell = <<NewState>>
    /\ groups = <<>>
    /\ panicked = FALSE
    /\ lastCall = Call("new", 0, "unit", <<>>, <<>>)
    /\ misuse = FALSE
    /\ pstate = <<>> /\ reading = {} /\ tpanic = {}
    /\ last_chrom = <<>>
    /\ chrom_ids = <<>>
    /\ chrom_map = {}
    /\ returned = <<>>

InitParser ==
    /\ input \in Inputs
    /\ cell = <<NewState>>
    /\ groups = <<>>
    /\ panicked = FALSE
    /\ lastCall = Call("new", 0, "unit", <<>>, <<>>)
    /\ misuse = FALSE
    /\ pstate = <<>> /\ reading = {} /\ tpanic = {}

InitIterIdle ==
    /\ last_chrom = <<>>
    /\ chrom_ids = <<>>
    /\ chrom_map = {}
    /\ returned = <<>>

\* The grouper used directly, as in tests::test_works.
Init == InitParser /\ InitIterIdle /\ InitNoReader
Next ==
    \/ ParserNext
    \/ \E g \in DOMAIN groups : GroupNext(g)
    \/ \E g \in DOMAIN groups : GroupPeek(g)
    \/ \E g \in DOMAIN groups : GroupDrop(g)
Spec == Init /\ [][Next]_vars

\* The grouper driven by the streaming iterator, its sub-streams read by the
\* write pipeline.
IterInit == InitParser /\ InitIter /\ InitNoReader
IterNext ==
    \/ ItNext
    \/ \E g \in DOMAIN groups : GroupNext(g)
    \/ \E g \in DOMAIN groups : GroupPeek(g)
    \/ \E g \in DOMAIN groups : GroupDrop(g)
IterSpec == IterInit /\ [][IterNext]_vars

\* Queries of a BigWig file through one reader.
ReaderInit == file \in Files /\ zoom_headers = <<>> /\ InitReaderIdle /\ InitNoParser
ReaderNext ==
    \/ \E q \in Queries : GetInterval(q.start, q.end)
    \/ IterNextCall
    \/ Drop
    \/ \E q \in Queries : Values(q.start, q.end)
    \/ Close
ReaderSpec == ReaderInit /\ [][ReaderNext]_vars

\* BigWigRead::from called on what is on disk: a reader exists only when it
\* returned Ok.
From ==
    /\ attach = "none"
    /\ attach' = BigWigRead_from(disk)
    /\ endianness' = IF attach' = "ok" THEN read_info(disk).endianness ELSE "none"
    /\ rcall' = IF attach' = "ok" THEN RCall("from", "ok", 0, 0, 0, {}, <<>>) ELSE rcall
    /\ reader' = <<>>
    /\ UNCHANGED <<disk, cloneVars, file, zoom_headers, ioLog, iter, out,
                   parserVars, iterVars>>

\* Files of one block.
OpenFiles == {f \in Files : Len(f) = 1}

\* A file is opened and then queried.
OpenInit ==
    /\ disk \in Disks
    /\ attach = "none"
    /\ endianness = "none"
    /\ cache = {}
    /\ clones = <<>>
    /\ file \in OpenFiles
    /\ zoom_headers = <<>>
    /\ reader = <<>> /\ ioLog = <<>> /\ iter = <<>> /\ out = <<>>
    /\ rcall = RCall("new", "unit", 0, 0, 0, {}, <<>>)
    /\ InitNoParser
OpenNext ==
    \/ From
    \/ \E q \in Queries : Values(q.start, q.end)
    \/ Drop
    \/ Close
    \/ EnsureReader
OpenSpec == OpenInit /\ [][OpenNext]_vars

\* Zoom queries of a BigWig file through one reader.
ZoomInit ==
    /\ file = OneBlockFile
    /\ zoom_headers \in ZoomHeaderLists
    /\ InitReaderIdle /\ InitNoParser
ZoomNext ==
    \/ \E q \in Queries, l \in AskedLevels : GetZoomInterval(q.start, q.end, l)
    \/ \E q \in Queries : Values(q.start, q.end)
    \/ Drop
    \/ Close
ZoomSpec == ZoomInit /\ [][ZoomNext]_vars

\* Most clones made of a reader.
MaxClones == 2

\* The reader as a value: its file info, its handle and its cache.
Self == [info |-> <<file, zoom_headers>>, reader |-> reader, cache |-> cache]

\* The mutant of BigWigRead_clone: the handle and the cache are copied.
BigWigRead_cloneAll(b) == b

\* Clone for BigWigRead
BigWigRead_clone(b) == [info |-> b.info, reader |-> <<>>, cache |-> {}]

\* Clone for BigWigRead, called on the reader.
Clone ==
    /\ Free
    /\ Len(clones) < MaxClones
    /\ clones' = Append(clones, BigWigRead_clone(Self))
    /\ rcall' = RCall("clone", "ok", 0, 0, 0, {}, <<>>)
    /\ ioLog' = <<>>
    /\ UNCHANGED <<openVars, cache, file, zoom_headers, reader, iter, out,
                   parserVars, iterVars>>

\* BigWigRead::ensure_reader on clone i, as its first use makes it.
CloneEnsureReader(i) ==
    /\ Free
    /\ LET rd == ensure_reader([h |-> clones[i].reader, log |-> <<>>])
       IN /\ clones' = [clones EXCEPT ![i].reader = rd.h]
          /\ ioLog' = rd.log
          /\ rcall' = RCall("clone_ensure_reader", "ok", i, 0, 0, {}, <<>>)
    /\ UNCHANGED <<openVars, cache, file, zoom_headers, reader, iter, out,
                   parserVars, iterVars>>

\* A reader is queried and cloned, and the clones are used.
CloneInit == ZoomInit
CloneNext ==
    \/ \E q \in Queries, l \in AskedLevels : GetZoomInterval(q.start, q.end, l)
    \/ \E q \in Queries : Values(q.start, q.end)
    \/ Drop
    \/ Close
    \/ Clone
    \/ \E i \in DOMAIN clones : CloneEnsureReader(i)
CloneSpec == CloneInit /\ [][CloneNext]_vars

(***************************************************************************)
(* The grouper and its sub-streams on different threads                    *)
(***************************************************************************)
\* The parties: 0 is the grouper, g the sub-stream groups[g]. A call is made of
\* steps, the steps of the parties interleave; a panic ends the party's thread.

\* The mutant of TakeState: the state is read and left in the cell.
TakeStateCopy(c) == [st |-> c, cell |-> c]

\* self.state.swap(None): what the caller gets and what the cell holds after.
TakeState(c) == [st |-> c, cell |-> <<>>]

\* BedParser::next: let mut state = self.state.swap(None).expect(..)
P_Take ==
    /\ 0 \notin tpanic /\ pstate = <<>>
    /\ Cardinality(LiveGroups) < MaxLive
    /\ LET t == TakeState(cell)
       IN /\ cell' = t.cell
          /\ pstate' = t.st
          /\ tpanic' = IF t.st = <<>> THEN tpanic \cup {0} ELSE tpanic
          /\ lastCall' = Call("take", 0, IF t.st = <<>> THEN "panic" ELSE "ok",
                              <<>>, <<>>)
    /\ UNCHANGED <<input, groups, panicked, misuse, reading, iterVars, readerVars>>

\* BedParser::next: the check of ChromOpt::Same, then advance() begins.
P_Begin ==
    /\ pstate # <<>> /\ 0 \notin reading
    /\ IF pstate[1].next_chrom.tag = "Same"
       THEN /\ pstate' = <<>>
            /\ tpanic' = tpanic \cup {0}
            /\ lastCall' = Call("check", 0, "panic", <<>>, <<>>)
            /\ UNCHANGED reading
       ELSE /\ reading' = reading \cup {0}
            /\ lastCall' = Call("advance", 0, "begin", <<>>, <<>>)
            /\ UNCHANGED <<pstate, tpanic>>
    /\ UNCHANGED <<input, cell, groups, panicked, misuse, iterVars, readerVars>>

\* BedParser::next: advance() ends, the group is made, self.state.swap(Some(state))
P_End ==
    /\ 0 \in reading
    /\ LET a == advance(pstate[1])
       IN /\ reading' = reading \ {0}
          /\ pstate' = <<>>
          /\ IF ~a.ok
             THEN /\ lastCall' = Call("ParserNext", 0, "err", <<>>, <<>>)
                  /\ UNCHANGED <<cell, groups>>
             ELSE /\ cell' = <<a.st>>
                  /\ groups' = IF a.st.curr_chrom = <<>> THEN groups
                               ELSE Append(groups, NewGroup(a.st.curr_chrom[1]))
                  /\ lastCall' = Call("ParserNext", 0,
                                      IF a.st.curr_chrom = <<>> THEN "none" ELSE "group",
                                      <<>>, a.st.curr_chrom)
    /\ UNCHANGED <<input, panicked, misuse, tpanic, iterVars, readerVars>>

\* ChromGroup::next and peek: self.state.swap(None) when curr_state is None; the
\* panic unwinds the thread, which drops the sub-stream.
G_Take(g) ==
    /\ groups[g].live /\ g \notin tpanic /\ groups[g].curr_state = <<>>
    /\ LET t == TakeState(cell)
       IN /\ cell' = t.cell
          /\ groups' = [groups EXCEPT ![g] =
                 [@ EXCEPT !.curr_state = t.st, !.live = (t.st # <<>>)]]
          /\ tpanic' = IF t.st = <<>> THEN tpanic \cup {g} ELSE tpanic
          /\ lastCall' = Call("take", g, IF t.st = <<>> THEN "panic" ELSE "ok",
                              <<>>, <<>>)
    /\ UNCHANGED <<input, panicked, misuse, pstate, reading, iterVars, readerVars>>

\* ChromGroup::next, when it returns without reading the source.
G_Now(g) ==
    /\ groups[g].live /\ groups[g].curr_state # <<>> /\ g \notin reading
    /\ LET st == groups[g].curr_state[1]
       IN /\ st.curr_val # <<>> \/ st.next_chrom.tag = "Diff"
          /\ LET r == ChromGroup_next(st)
             IN /\ groups' = [groups EXCEPT ![g] =
                       [@ EXCEPT !.curr_state = <<r.st>>,
                                 !.yielded = IF r.ret = "some"
                                             THEN Append(@, r.val[1]) ELSE @,
                                 !.drained = @ \/ r.ret = "none"]]
                /\ lastCall' = Call("GroupNext", g, r.ret, r.val, <<>>)
    /\ UNCHANGED <<input, cell, panicked, misuse, concVars, iterVars, readerVars>>

\* ChromGroup::peek, with the state in hand.
G_Peek(g) ==
    /\ groups[g].live /\ groups[g].curr_state # <<>> /\ g \notin reading
    /\ LET v == ChromGroup_peek(groups[g].curr_state[1])
       IN lastCall' = Call("GroupPeek", g, IF v = <<>> THEN "none" ELSE "some", v, <<>>)
    /\ UNCHANGED <<input, cell, groups, panicked, misuse, concVars, iterVars,
                   readerVars>>

\* ChromGroup::next: state.advance() begins.
G_Begin(g) ==
    /\ groups[g].live /\ groups[g].curr_state # <<>> /\ g \notin reading
    /\ groups[g].curr_state[1].curr_val = <<>>
    /\ groups[g].curr_state[1].next_chrom.tag # "Diff"
    /\ reading' = reading \cup {g}
    /\ lastCall' = Call("advance", g, "begin", <<>>, <<>>)
    /\ UNCHANGED <<input, cell, groups, panicked, misuse, pstate, tpanic, iterVars,
                   readerVars>>

\* ChromGroup::next: state.advance() ends, state.curr_val.take() is returned.
G_End(g) ==
    /\ g \in reading
    /\ LET r == ChromGroup_next(groups[g].curr_state[1])
       IN /\ groups' = [groups EXCEPT ![g] =
                 [@ EXCEPT !.curr_state = <<r.st>>,
                           !.yielded = IF r.ret = "some" THEN Append(@, r.val[1]) ELSE @,
                           !.drained = @ \/ r.ret = "none"]]
          /\ lastCall' = Call("GroupNext", g, r.ret, r.val, <<>>)
    /\ reading' = reading \ {g}
    /\ UNCHANGED <<input, cell, panicked, misuse, pstate, tpanic, iterVars, readerVars>>

\* Drop for ChromGroup, between the calls of its thread.
G_Drop(g) ==
    /\ groups[g].live /\ g \notin reading
    /\ cell' = ChromGroup_drop(groups[g].curr_state, cell)
    /\ groups' = [groups EXCEPT ![g] = [@ EXCEPT !.curr_state = <<>>, !.live = FALSE]]
    /\ lastCall' = Call("GroupDrop", g, "unit", <<>>, <<>>)
    /\ UNCHANGED <<input, panicked, misuse, concVars, iterVars, readerVars>>

ConcInit == InitParser /\ InitIterIdle /\ InitNoReader
ConcNext ==
    \/ P_Take
    \/ P_Begin
    \/ P_End
    \/ \E g \in DOMAIN groups : G_Take(g)
    \/ \E g \in DOMAIN groups : G_Now(g)
    \/ \E g \in DOMAIN groups : G_Peek(g)
    \/ \E g \in DOMAIN groups : G_Begin(g)
    \/ \E g \in DOMAIN groups : G_End(g)
    \/ \E g \in DOMAIN groups : G_Drop(g)
ConcSpec == ConcInit /\ [][ConcNext]_vars

(***************************************************************************)
(* The vocabulary of the properties                                        *)
(***************************************************************************)
IsPrefix(p, q) == Len(p) <= Len(q) /\ \A i \in DOMAIN p : p[i] = q[i]

\* The source holds records only: no blank line, no failing read.
RecordsOnly == \A i \in DOMAIN input : input[i].kind = "rec"

\* The maximal runs of consecutive records with one chromosome name.
RunStarts ==
    {i \in DOMAIN input : i = 1 \/ input[i].chrom # input[i - 1].chrom}
NumRuns == Cardinality(RunStarts)
StartOfRun(k) == CHOOSE i \in RunStarts : Cardinality({j \in RunStarts : j <= i}) = k
EndOfRun(k) ==
    CHOOSE e \in DOMAIN input :
        /\ e >= StartOfRun(k)
        /\ \A j \in (StartOfRun(k) + 1)..e : j \notin RunStarts
        /\ (e = Len(input) \/ (e + 1) \in RunStarts)
RunOf(k) == [j \in 1..(EndOfRun(k) - StartOfRun(k) + 1) |-> StartOfRun(k) + j - 1]

\* The parser state, wherever it is held: in the cell or in a sub-stream.
Holders ==
    (IF cell = <<>> THEN {} ELSE {cell[1]})
        \cup {groups[g].curr_state[1] : g \in {h \in DOMAIN groups : groups[h].curr_state # <<>>}}

Held(st) == Len(st.curr_val) + Len(st.next_val)

RECURSIVE SumHeld(_)
SumHeld(S) == IF S = {} THEN 0 ELSE LET st == CHOOSE x \in S : TRUE
                                    IN Held(st) + SumHeld(S \ {st})
TotalHeld == SumHeld(Holders)

\* A record of the current chromosome that no sub-stream has yielded yet.
Unyielded(st) ==
    st.curr_val # <<>> \/ (st.next_chrom.tag = "Same" /\ st.next_val # <<>>)

(***************************************************************************)
(* C1: with every sub-stream drained and dropped before the grouper's      *)
(* next() is called again, the groups returned are the maximal runs of     *)
(* equal chromosome names, in input order; each sub-stream yields exactly  *)
(* the records of its run, in order, and ends at the first record of       *)
(* another chromosome, which is neither lost nor duplicated and opens the  *)
(* next group; after the last group next() returns none.                   *)
(***************************************************************************)
C1_GroupsAreRuns ==
    (RecordsOnly /\ ~misuse) =>
        /\ ~panicked
        /\ Len(groups) <= NumRuns
        /\ \A g \in DOMAIN groups :
              /\ groups[g].chrom = input[StartOfRun(g)].chrom
              /\ IsPrefix(groups[g].yielded, RunOf(g))
              /\ groups[g].drained => groups[g].yielded = RunOf(g)
        /\ lastCall.op = "ParserNext" =>
              /\ lastCall.ret \in {"group", "none"}
              /\ lastCall.ret = "none" <=>
                    (Len(groups) = NumRuns /\ ~Undisciplined)

\* Three records in two runs were grouped, read and the end was reported.
C1_Witness ==
    /\ RecordsOnly /\ ~misuse
    /\ Len(groups) = 2
    /\ Len(groups[1].yielded) = 2 /\ Len(groups[2].yielded) = 1
    /\ lastCall.op = "ParserNext" /\ lastCall.ret = "none"

(***************************************************************************)
(* C2: the grouper buffers at most one record: at most one record in total *)
(* is held in curr_val and next_val, in every reachable state.             *)
(***************************************************************************)
C2_AtMostOneBuffered == TotalHeld <= 1

\* C2 as amended: at most two records are held, one in curr_val and one in
\* next_val, and two only between a grouper next() that returned a group and
\* the first sub-stream next() after it; once a sub-stream's next() has
\* returned, at most one record in total is held.
C2_AtMostOneAfterRead ==
    /\ TotalHeld <= 2
    /\ (lastCall.op = "GroupNext" /\ lastCall.ret # "panic") => TotalHeld <= 1
    /\ TotalHeld = 2 =>
          /\ groups # <<>>
          /\ groups[Len(groups)].yielded = <<>>

\* A sub-stream's next() returned a record while the lookahead is held.
C2_Witness ==
    /\ lastCall.op = "GroupNext" /\ lastCall.ret = "some"
    /\ TotalHeld = 1
    /\ Len(groups[lastCall.g].yielded) = 2

(***************************************************************************)
(* C3: the grouper's next(), called while the previous sub-stream still    *)
(* has records of its chromosome that it has not yielded, panics; it never *)
(* returns a group or none. This includes a chromosome with one record     *)
(* whose sub-stream was never read.                                        *)
(***************************************************************************)
C3_NextPanicsOnUnyielded ==
    [][(lastCall'.op = "ParserNext" /\ cell # <<>> /\ Unyielded(cell[1]))
          => panicked']_vars

\* a < b byte-wise: a is a proper prefix of b, or at the first position where
\* they differ a has the smaller byte.
ByteWiseLess(a, b) ==
    \E k \in 0..Len(a) :
        /\ k <= Len(b)
        /\ \A i \in 1..k : a[i] = b[i]
        /\ \/ (k = Len(a) /\ k < Len(b))
           \/ (k < Len(a) /\ k < Len(b) /\ a[k + 1] < b[k + 1])

\* The message cites the name: the name is one of the values formatted into it.
Cites(msg, name) == \E i \in DOMAIN msg.args : msg.args[i] = name

\* Call k of the streaming iterator obtained a group whose name is not strictly
\* greater than the name of the group the call before it obtained.
OutOfOrder(k) ==
    /\ returned[k].chrom # <<>>
    /\ k > 1
    /\ returned[k - 1].chrom # <<>>
    /\ ~ByteWiseLess(returned[k - 1].chrom[1], returned[k].chrom[1])

\* The names to which an id map, current or returned, gives an id.
IdNames ==
    (IF chrom_ids = <<>> THEN {} ELSE {chrom_ids[1][i] : i \in DOMAIN chrom_ids[1]})
        \cup UNION {{returned[k].map[i] : i \in DOMAIN returned[k].map} : k \in DOMAIN returned}

(***************************************************************************)
(* C4: the streaming iterator's next() returns an InvalidInput error       *)
(* exactly when the name of the group just obtained is not strictly        *)
(* greater, byte-wise, than the name of the group the preceding next()     *)
(* call obtained; the first group never fails this check.                  *)
(***************************************************************************)
C4_InvalidInputIffOutOfOrder ==
    \A k \in DOMAIN returned :
        returned[k].chrom # <<>> =>
            (returned[k].kind = "InvalidInput" <=> OutOfOrder(k))

\* C4 as amended: next() returns the "not sorted" InvalidInput error exactly
\* when the name of the group just obtained is not strictly greater, byte-wise,
\* than the name of the group the preceding call obtained; the first group never
\* fails this check. (A name in order that the chrom sizes lack is an
\* InvalidInput too, with another message.)
C4_NotSortedIffOutOfOrder ==
    \A k \in DOMAIN returned :
        returned[k].chrom # <<>> =>
            /\ (returned[k].kind = "InvalidInput" /\ returned[k].msg = MsgNotSorted)
                   <=> OutOfOrder(k)
            /\ (k = 1 => returned[k].msg # MsgNotSorted)

\* The name <<2>> after <<1>> was accepted and <<1, 0>> after <<2>> refused.
C4_Witness ==
    \E k \in DOMAIN returned :
        /\ k > 2
        /\ returned[k - 2].chrom = << <<1>> >>
        /\ returned[k - 1].chrom = << <<2>> >> /\ returned[k - 1].kind = "group"
        /\ returned[k].chrom = << <<1, 0>> >> /\ returned[k].msg = MsgNotSorted

(***************************************************************************)
(* C5: when the ordering rule is violated, the InvalidInput error that     *)
(* next() returns cites the name of the offending chromosome.              *)
(***************************************************************************)
C5_NotSortedCitesName ==
    \A k \in DOMAIN returned :
        OutOfOrder(k) =>
            /\ returned[k].kind = "InvalidInput"
            /\ Cites(returned[k].msg, returned[k].chrom[1])

(***************************************************************************)
(* C6: when a group's name passes the ordering check and the chrom sizes   *)
(* have no entry for it, next() returns InvalidInput with a message that   *)
(* names the chromosome, returns no chromosome group for it and assigns it *)
(* no id in the id map.                                                    *)
(***************************************************************************)
C6_UnknownChromRefused ==
    \A k \in DOMAIN returned :
        (returned[k].chrom # <<>> /\ ~OutOfOrder(k)
            /\ returned[k].chrom[1] \notin chrom_map) =>
                /\ returned[k].kind = "InvalidInput"
                /\ Cites(returned[k].msg, returned[k].chrom[1])
                /\ returned[k].id = -1
                /\ \A g \in DOMAIN groups :
                      groups[g].chrom = returned[k].chrom[1] => ~groups[g].handed
                /\ returned[k].chrom[1] \notin IdNames

\* An unknown name was refused after a known one got its id, and the id map
\* was returned afterwards.
C6_Witness ==
    \E k \in DOMAIN returned :
        /\ k > 2
        /\ returned[k - 2].kind = "group"
        /\ returned[k - 1].chrom # <<>> /\ ~OutOfOrder(k - 1)
        /\ returned[k - 1].chrom[1] \notin chrom_map
        /\ returned[k - 1].kind = "InvalidInput"
        /\ returned[k].kind = "idmap" /\ Len(returned[k].map) = 1

\* The records stored for a chromosome, in file order.
RECURSIVE StoredFrom(_, _)
StoredFrom(chrom, b) ==
    IF b > Len(file) THEN <<>>
    ELSE (IF file[b].chrom_id = chrom THEN Stored(file[b]) ELSE <<>>)
             \o StoredFrom(chrom, b + 1)
StoredOf(chrom) == StoredFrom(chrom, 1)

\* The values the iterator has yielded so far.
IsValue(y) == y.kind = "value"
Yielded == LET ys == SelectSeq(out, IsValue) IN [k \in DOMAIN ys |-> ys[k].v]

\* The iteration ran to its end and met no error.
Completed ==
    /\ iter # <<>>
    /\ out # <<>> /\ out[Len(out)].kind = "end"
    /\ \A k \in DOMAIN out : out[k].kind # "err"

\* The block search returned blocks of the queried chromosome only.
SearchOfChrom == \A b \in rcall.blocks : file[b].chrom_id = QueryChrom

ValuesOf(recs) == [k \in DOMAIN recs |-> recs[k].value]

\* The stored records that overlap the half-open range of the last query.
OverlapsQuery(r) == r.start < rcall.end /\ r.end > rcall.start
OverlappingStored == SelectSeq(StoredOf(QueryChrom), OverlapsQuery)

(***************************************************************************)
(* C7: for a query with start < end, the records get_interval yields are   *)
(* exactly the stored records of the chromosome that overlap [start, end): *)
(* rec.start < end and rec.end > start. A record that only touches the     *)
(* range is not yielded.                                                   *)
(***************************************************************************)
C7_YieldsExactlyOverlapping ==
    (Completed /\ SearchOfChrom /\ rcall.start < rcall.end) =>
        ValuesOf(Yielded) = ValuesOf(OverlappingStored)

(***************************************************************************)
(* C8: for start <= end, values(chrom, start, end) returns a vector of     *)
(* length end - start whose entry i is the value of the stored record that *)
(* covers base start + i, and NaN when no record covers that base.         *)
(***************************************************************************)
Covering(base) ==
    {k \in DOMAIN StoredOf(QueryChrom) :
        StoredOf(QueryChrom)[k].start <= base /\ base < StoredOf(QueryChrom)[k].end}

C8_ValuesPerBase ==
    rcall.op = "values" =>
        /\ rcall.ret # "panic"
        /\ (rcall.ret = "ok" /\ SearchOfChrom) =>
              /\ Len(rcall.values) = rcall.end - rcall.start
              /\ \A i \in 0..(rcall.end - rcall.start - 1) :
                    IF Covering(rcall.start + i) = {}
                    THEN rcall.values[i + 1] = NaN
                    ELSE \A k \in Covering(rcall.start + i) :
                            rcall.values[i + 1] = StoredOf(QueryChrom)[k].value

\* A vector with a NaN entry and a record's value was returned from a search
\* that also gave a block whose record only touches the range.
C8_Witness ==
    /\ rcall.op = "values" /\ rcall.ret = "ok" /\ SearchOfChrom
    /\ Len(rcall.values) = 2
    /\ \E i, j \in 1..2 : rcall.values[i] = NaN /\ rcall.values[j] # NaN
    /\ \E b \in rcall.blocks :
          /\ ~Overlaps(file[b], QueryChrom, rcall.start, rcall.end)
          /\ file[b].item_count > 0

(***************************************************************************)
(* C9: get_interval(chrom, 0, chrom_length) yields every stored record of  *)
(* the chromosome, each once, in ascending (start, end) order, the blocks  *)
(* holding the records in sorted order and being searched in file order.   *)
(***************************************************************************)
Ascending(recs) ==
    \A i, j \in DOMAIN recs :
        i < j => \/ recs[i].start < recs[j].start
                 \/ (recs[i].start = recs[j].start /\ recs[i].end <= recs[j].end)

C9_FullRangeYieldsAll ==
    (Completed /\ SearchOfChrom /\ rcall.start = 0 /\ rcall.end = MaxCoord) =>
        /\ Yielded = StoredOf(QueryChrom)
        /\ Ascending(Yielded)

\* Three records in two blocks, one of them a fixed-step section of two
\* records, were yielded over the whole chromosome.
C9_Witness ==
    /\ Completed /\ SearchOfChrom /\ rcall.start = 0 /\ rcall.end = MaxCoord
    /\ Len(file) = 2
    /\ \E b \in DOMAIN file : file[b].section_type = 3 /\ file[b].item_count = 2
    /\ Len(Yielded) = 3

(***************************************************************************)
(* C10: get_zoom_interval returns an error when no zoom header has the     *)
(* reduction level asked for (no nearest level is taken instead), and then *)
(* does not open, seek or read the file; when a header matches, the zoom   *)
(* R-tree search starts at that header's index_offset.                     *)
(***************************************************************************)
Matching ==
    {i \in DOMAIN zoom_headers : zoom_headers[i].reduction_level = rcall.level}

C10_ZoomLevelExact ==
    rcall.op = "get_zoom_interval" =>
        /\ Matching = {} => (rcall.ret = "err" /\ ioLog = <<>>)
        /\ rcall.ret = "ok" =>
              /\ Matching # {}
              /\ \E k \in DOMAIN ioLog :
                    /\ ioLog[k].op = "search"
                    /\ \E i \in Matching : ioLog[k].at = zoom_headers[i].index_offset
                    /\ \A j \in DOMAIN ioLog : ioLog[j].op = "search" => j = k

\* Level 2 was asked of a closed reader whose file has levels 1 and 4: an error,
\* and the reader is still closed.
C10_Witness ==
    /\ rcall.op = "get_zoom_interval" /\ rcall.ret = "err" /\ rcall.level = 2
    /\ Len(zoom_headers) = 2
    /\ zoom_headers[1].reduction_level = 1 /\ zoom_headers[2].reduction_level = 4
    /\ reader = <<>>

(***************************************************************************)
(* C11: BigWigRead::from on a file whose first four bytes are neither a    *)
(* BBI magic nor its byte-reverse fails with NotABigWig and constructs no  *)
(* reader; a valid BBI file of another type (BigBed) gets the same error;  *)
(* an unreadable chromosome tree gives InvalidChroms and an input/output   *)
(* failure IoError.                                                        *)
(***************************************************************************)
IsMagic(b) == \E m \in {BigWigMagic, BigBedMagic} : b = m \/ b = Reverse(m)
IsBigBed(b) == b = BigBedMagic \/ b = Reverse(BigBedMagic)

C11_AttachErrors ==
    attach # "none" =>
        /\ (disk.io_fail = "none" /\ ~IsMagic(disk.bytes)) => attach = "NotABigWig"
        /\ (disk.io_fail = "none" /\ IsBigBed(disk.bytes) /\ disk.chroms_ok)
              => attach = "NotABigWig"
        /\ (disk.io_fail = "none" /\ IsMagic(disk.bytes) /\ ~disk.chroms_ok)
              => attach = "InvalidChroms"
        /\ (disk.io_fail \in {"open", "header"}) => attach = "IoError"
        /\ (disk.io_fail = "chroms" /\ IsMagic(disk.bytes)) => attach = "IoError"
        /\ attach # "ok" =>
              (rcall.op = "new" /\ reader = <<>> /\ ioLog = <<>> /\ iter = <<>>)

\* from has refused a file that begins with the bytes of the BigWig magic in an
\* order that is neither the magic nor its reverse.
C11_Witness ==
    /\ attach = "NotABigWig"
    /\ disk.bytes = <<38, 143, 252, 136>> /\ disk.io_fail = "none"

(***************************************************************************)
(* C12: on a sub-stream, after next() has returned record k, peek()        *)
(* returns record k+1 when it is of the same chromosome and none when      *)
(* record k was the last of its chromosome; peek() consumes nothing (the   *)
(* parser state, the cell and what the sub-stream yielded are as before),  *)
(* and a next() that follows returns the record peek() showed.             *)
(***************************************************************************)
LastYielded(g) == groups[g].yielded[Len(groups[g].yielded)]

C12_PeekShowsLookahead ==
    [][\A g \in DOMAIN groups :
          (RecordsOnly /\ groups[g].yielded # <<>>) =>
             /\ (lastCall'.op = "GroupPeek" /\ lastCall'.g = g
                     /\ lastCall'.ret # "panic") =>
                   /\ lastCall'.val =
                         IF /\ LastYielded(g) < Len(input)
                            /\ input[LastYielded(g) + 1].chrom = input[LastYielded(g)].chrom
                         THEN <<LastYielded(g) + 1>> ELSE <<>>
                   /\ lastCall'.ret = IF lastCall'.val = <<>> THEN "none" ELSE "some"
                   /\ groups' = groups /\ cell' = cell /\ input' = input
             /\ (lastCall.op = "GroupPeek" /\ lastCall.g = g /\ lastCall.ret # "panic"
                     /\ lastCall'.op = "GroupNext" /\ lastCall'.g = g) =>
                   /\ lastCall'.val = lastCall.val
                   /\ lastCall'.ret = lastCall.ret]_vars

\* peek() returned none after a record was yielded, the lookahead being a record
\* of another chromosome.
C12_Witness ==
    /\ RecordsOnly
    /\ lastCall.op = "GroupPeek" /\ lastCall.ret = "none"
    /\ groups[lastCall.g].yielded # <<>>
    /\ groups[lastCall.g].curr_state # <<>>
    /\ groups[lastCall.g].curr_state[1].next_chrom.tag = "Diff"
    /\ groups[lastCall.g].curr_state[1].next_val # <<>>

(***************************************************************************)
(* C13: dropping a sub-stream returns the complete parser state it held    *)
(* (current chromosome, lookahead record, lookahead chromosome) to the     *)
(* shared cell unchanged; when the lookahead it held is of another         *)
(* chromosome, the next call of the grouper's next() returns the group of  *)
(* that chromosome, whose sub-stream yields the lookahead record first.    *)
(***************************************************************************)
DropOf(g) ==
    /\ lastCall'.op = "GroupDrop" /\ lastCall'.g = g
    /\ groups[g].live /\ ~groups'[g].live

C13_DropReturnsState ==
    [][/\ \A g \in DOMAIN groups :
             (DropOf(g) /\ groups[g].curr_state # <<>>) =>
                /\ cell' = groups[g].curr_state
                /\ groups[g].curr_state[1].next_chrom.tag = "Diff" =>
                      LET held == groups[g].curr_state[1]
                          r == BedParser_next(cell')
                      IN r.ret # "err" =>
                            /\ r.ret = "group"
                            /\ r.chrom = <<held.next_chrom.name>>
                            /\ ChromGroup_next(r.cell[1]).ret = "some"
                            /\ ChromGroup_next(r.cell[1]).val = held.next_val
       /\ (lastCall.op = "GroupDrop" /\ cell # <<>> /\ cell[1].next_chrom.tag = "Diff"
               /\ lastCall'.op = "ParserNext" /\ lastCall'.ret # "err") =>
             /\ lastCall'.ret = "group"
             /\ lastCall'.chrom = <<cell[1].next_chrom.name>>]_vars

\* A sub-stream was dropped after it yielded two records and before it reported
\* its end, and the grouper then returned the group of the lookahead's chromosome.
C13_Witness ==
    /\ lastCall.op = "ParserNext" /\ lastCall.ret = "group"
    /\ Len(groups) >= 2
    /\ ~groups[Len(groups) - 1].live
    /\ Len(groups[Len(groups) - 1].yielded) = 2
    /\ ~groups[Len(groups) - 1].drained
    /\ lastCall.chrom # <<groups[Len(groups) - 1].chrom>>

(***************************************************************************)
(* C14: an interval iterator returns the first error met while reading or  *)
(* decoding a block and then stops: after next() has returned an error,    *)
(* every later next() on the same iterator returns end-of-iteration and no *)
(* further block is read.                                                  *)
(***************************************************************************)
C14_StopsAfterError ==
    \A k \in DOMAIN out :
        out[k].kind = "err" =>
            /\ \A j \in DOMAIN out : j > k => out[j].kind = "end"
            /\ k < Len(out) => ioLog = <<>>

(***************************************************************************)
(* C15: the chromosome ids the streaming iterator hands out are dense and  *)
(* in first-seen order: the k-th group returned (from 0) carries chrom_id  *)
(* k, no two groups share an id, and the id map returned at the end holds  *)
(* exactly the chromosomes returned as groups, in that order.              *)
(***************************************************************************)
IsGroupRet(r) == r.kind = "group"
GroupRets == SelectSeq(returned, IsGroupRet)

C15_IdsDense ==
    /\ \A k \in DOMAIN GroupRets : GroupRets[k].id = k - 1
    /\ \A j, k \in DOMAIN GroupRets : GroupRets[j].id = GroupRets[k].id => j = k
    /\ \A n \in DOMAIN returned :
          returned[n].kind = "idmap" =>
             returned[n].map = [k \in DOMAIN GroupRets |-> GroupRets[k].chrom[1]]

(***************************************************************************)
(* C19: once the streaming iterator's next() has returned an InvalidInput  *)
(* error, no later next() call on it returns a chromosome group, so the    *)
(* names of all groups one iterator returns are strictly increasing.       *)
(***************************************************************************)
C19_InvalidInputIsFatal ==
    /\ \A j, k \in DOMAIN returned :
          (j < k /\ returned[j].kind = "InvalidInput") => returned[k].kind # "group"
    /\ \A j, k \in DOMAIN GroupRets :
          j < k => ByteWiseLess(GroupRets[j].chrom[1], GroupRets[k].chrom[1])

(***************************************************************************)
(* C20: for an input without errors the streaming iterator's next()        *)
(* returns one group per chromosome, then the id map exactly once, on the  *)
(* first call after the grouper is exhausted, then none on every later     *)
(* call; the id map never comes before the last group or more than once.   *)
(***************************************************************************)
\* Records only, the chromosomes in strictly increasing order and all of them in
\* the chrom sizes.
NoErrors ==
    /\ RecordsOnly
    /\ \A k \in 1..(NumRuns - 1) :
          ByteWiseLess(input[StartOfRun(k)].chrom, input[StartOfRun(k + 1)].chrom)
    /\ \A i \in DOMAIN input : input[i].chrom \in chrom_map

C20_GroupsThenIdMapThenNone ==
    NoErrors =>
        \A i \in DOMAIN returned :
            /\ i <= NumRuns =>
                  /\ returned[i].kind = "group"
                  /\ returned[i].chrom = <<input[StartOfRun(i)].chrom>>
            /\ i = NumRuns + 1 => returned[i].kind = "idmap"
            /\ i > NumRuns + 1 => returned[i].kind = "none"

\* Two chromosomes were returned, then the id map, then none twice.
C20_Witness ==
    /\ NoErrors /\ NumRuns = 2
    /\ Len(returned) = 5
    /\ returned[3].kind = "idmap" /\ returned[4].kind = "none"
    /\ returned[5].kind = "none"

(***************************************************************************)
(* C16: cloning a reader yields a reader with the same file info, no open  *)
(* file handle (it reopens the file on first use) and an empty chunk       *)
(* cache, and leaves the original reader's handle, file position and cache *)
(* unchanged.                                                              *)
(***************************************************************************)
C16_CloneIsFresh ==
    [][/\ Len(clones') = Len(clones) + 1 =>
             /\ clones'[Len(clones')].info = <<file, zoom_headers>>
             /\ clones'[Len(clones')].reader = <<>>
             /\ clones'[Len(clones')].cache = {}
             /\ reader' = reader /\ cache' = cache
             /\ file' = file /\ zoom_headers' = zoom_headers
       /\ \A i \in DOMAIN clones :
             (Len(clones') = Len(clones) /\ clones[i].reader = <<>>
                  /\ clones'[i].reader # <<>>) =>
                /\ ioLog' = <<Io("open", 0)>>
                /\ clones'[i].reader = <<[pos |-> 0, endianness |-> endianness]>>
                /\ reader' = reader /\ cache' = cache]_vars

\* A reader with an open handle, past the start of the file, and a chunk in its
\* cache has just been cloned.
C16_Witness ==
    /\ rcall.op = "clone"
    /\ reader # <<>> /\ reader[1].pos > 0
    /\ cache # {}
    /\ clones # <<>> /\ clones[Len(clones)].reader = <<>>

(***************************************************************************)
(* C17: while a sub-stream has the parser state checked out of the shared  *)
(* cell (it called next() or peek() and was not dropped), a call of the    *)
(* grouper's next() panics, even when that sub-stream is exhausted, and so *)
(* does next() or peek() on a second sub-stream; neither returns a value.  *)
(***************************************************************************)
C17_CheckedOutPanics ==
    [][\A g \in DOMAIN groups :
          groups[g].curr_state # <<>> =>
             /\ lastCall'.op = "ParserNext" =>
                   /\ lastCall'.ret = "panic" /\ panicked'
                   /\ groups' = groups /\ cell' = cell
             /\ (lastCall'.op \in {"GroupNext", "GroupPeek"} /\ lastCall'.g # g) =>
                   /\ lastCall'.ret = "panic" /\ panicked'
                   /\ groups' = groups /\ cell' = cell]_vars

\* The grouper's next() panicked while an exhausted sub-stream held the state.
C17_Witness ==
    /\ panicked
    /\ lastCall.op = "ParserNext" /\ lastCall.ret = "panic"
    /\ \E g \in DOMAIN groups :
          groups[g].live /\ groups[g].curr_state # <<>> /\ groups[g].drained

(***************************************************************************)
(* C18: under every interleaving of calls made from different threads on   *)
(* the grouper and on sub-streams that share one cell, the parser state is *)
(* held by at most one party at any time (the cell, the grouper during its *)
(* next(), or one sub-stream), no two parties read or advance the record   *)
(* source at once, and a party that finds the cell empty panics instead of *)
(* waiting.                                                                *)
(***************************************************************************)
HolderCount ==
    (IF cell = <<>> THEN 0 ELSE 1) + (IF pstate = <<>> THEN 0 ELSE 1)
        + Cardinality({g \in DOMAIN groups : groups[g].curr_state # <<>>})

HoldsState(p) == IF p = 0 THEN pstate # <<>> ELSE groups[p].curr_state # <<>>

C18_OneHolder ==
    [][/\ HolderCount' <= 1
       /\ Cardinality(reading') <= 1
       /\ \A p \in reading' : HoldsState(p)'
       /\ (lastCall'.op = "take" /\ cell = <<>>) =>
             /\ lastCall'.ret = "panic"
             /\ lastCall'.g \in tpanic'
             /\ cell' = <<>> /\ pstate' = pstate
             /\ \A g \in DOMAIN groups : groups'[g].curr_state = groups[g].curr_state]_vars

\* A sub-stream found the cell empty and panicked while the grouper was reading
\* the source.
C18_Witness ==
    /\ lastCall.op = "take" /\ lastCall.ret = "panic" /\ lastCall.g # 0
    /\ 0 \in reading

(***************************************************************************)
(* C21: block decoding reconstructs (start, end) for each section type:    *)
(* type 1 gives the stored start and end; type 2 the stored start and      *)
(* end = start + item_span; type 3 gives record i (from 0) start =         *)
(* chrom_start + i * item_step and end = start + item_span. item_count     *)
(* records are decoded per block, in stored order. Stated over a query of  *)
(* the whole chromosome, which keeps and clips nothing.                    *)
(***************************************************************************)
\* Record i (from 1) of the block, by the rule of its section type.
ByType(blk, i) ==
    LET it == blk.items[i]
        s == IF blk.section_type = 3
             THEN blk.chrom_start + (i - 1) * blk.item_step ELSE it.start
        e == IF blk.section_type = 1 THEN it.end ELSE s + blk.item_span
    IN Value(s, e, it.value)

\* The records of the blocks bs (a sequence of block numbers), block by block.
RECURSIVE Reconstructed(_)
Reconstructed(bs) ==
    IF bs = <<>> THEN <<>>
    ELSE [i \in 1..file[Head(bs)].item_count |-> ByType(file[Head(bs)], i)]
             \o Reconstructed(Tail(bs))

\* The blocks of the search that the iterator has taken so far.
TakenBlocks ==
    LET all == InFileOrder(rcall.blocks)
    IN SubSeq(all, 1, Len(all) - Len(iter[1].blocks))

C21_DecodeExact ==
    (/\ iter # <<>> /\ rcall.start = 0 /\ rcall.end = MaxCoord
     /\ \A k \in DOMAIN out : out[k].kind # "err") =>
        /\ IsPrefix(Yielded, Reconstructed(TakenBlocks))
        /\ out # <<>> /\ out[Len(out)].kind = "end" =>
              Yielded = Reconstructed(InFileOrder(rcall.blocks))

\* A variable-step block and a fixed-step block of two records were decoded to
\* the end.
C21_Witness ==
    /\ Completed /\ rcall.start = 0 /\ rcall.end = MaxCoord
    /\ rcall.blocks = {1, 2}
    /\ \E a, b \in DOMAIN file :
          /\ file[a].section_type = 2
          /\ file[b].section_type = 3 /\ file[b].item_count = 2
    /\ Len(Yielded) = 3

(***************************************************************************)
(* C22: every record get_interval yields for the query (start, end) is a   *)
(* stored record clipped to the query: its start is max(rec.start, start), *)
(* its end is min(rec.end, end), its value is the stored value, and so     *)
(* start <= yielded.start and yielded.end <= end.                          *)
(***************************************************************************)
\* Every record stored in the file, whatever its chromosome.
AllStored == UNION {{Stored(file[b])[i] : i \in DOMAIN Stored(file[b])} : b \in DOMAIN file}

C22_YieldedIsClipped ==
    iter # <<>> =>
        \A k \in DOMAIN Yielded :
            /\ \E rec \in AllStored :
                  /\ Yielded[k].value = rec.value
                  /\ Yielded[k].start = Max(rec.start, rcall.start)
                  /\ Yielded[k].end = Min(rec.end, rcall.end)
            /\ rcall.start <= Yielded[k].start
            /\ Yielded[k].end <= rcall.end

\* A record that reaches over both ends of the query was yielded.
C22_Witness ==
    /\ iter # <<>>
    /\ \E k \in DOMAIN Yielded : \E rec \in AllStored :
          /\ Yielded[k].value = rec.value
          /\ rec.start < rcall.start /\ rcall.end < rec.end
          /\ Yielded[k].start = rcall.start /\ Yielded[k].end = rcall.end

(***************************************************************************)
(* C23: for every block an interval iterator or values() decodes, the      *)
(* bytes read are the block.size bytes that start at block.offset: the     *)
(* seek is skipped only when the tracked known_offset equals block.offset, *)
(* and then the true file position is block.offset too. This holds from    *)
(* the known_offset 0 that get_interval sets, across adjacent and          *)
(* non-adjacent blocks, and after a block whose read or decode failed.     *)
(***************************************************************************)
\* The input/output the blocks bs ask for, known being the tracked offset: a
\* seek to the block unless known is its offset, then the read at its offset.
RECURSIVE BlockIo(_, _)
BlockIo(bs, known) ==
    IF bs = <<>> THEN <<>>
    ELSE LET blk == file[Head(bs)]
         IN (IF known # blk.offset THEN <<Io("seek", blk.offset)>> ELSE <<>>)
                \o <<Io("read", blk.offset)>>
                \o BlockIo(Tail(bs), blk.offset + blk.size)

IsRead(io) == io.op = "read"
Reads(log) == Len(SelectSeq(log, IsRead))

\* The input/output of a call from entry k on.
LogFrom(log, k) == SubSeq(log, k, Len(log))

IsOpen(io) == io.op = "open"
Opens(log) == Len(SelectSeq(log, IsOpen))

C24_HandleLifecycle ==
    [][/\ (attach = "none" /\ attach' = "ok") =>
             (reader' = <<>> /\ endianness' = EndiannessOf(disk.bytes))
       /\ (rcall'.op \in {"values", "ensure_reader"}
              /\ <<rcall, ioLog, reader>> # <<rcall', ioLog', reader'>>) =>
             /\ reader' # <<>>
             /\ Opens(ioLog') = IF reader = <<>> THEN 1 ELSE 0
             /\ Opens(ioLog') = 1 => ioLog'[1].op = "open"
             /\ (rcall'.op = "ensure_reader" /\ reader # <<>>) => reader' = reader
       /\ (rcall'.op = "close" /\ rcall' # rcall) => reader' = <<>>
       /\ reader' # <<>> => reader'[1].endianness = endianness'
       /\ attach = "ok" => endianness' = endianness]_vars

\* A big-endian file was queried and closed, and ensure_reader has opened it
\* again.
C24_Witness ==
    /\ disk.bytes = BigWigMagic
    /\ rcall.op = "ensure_reader" /\ ioLog = <<Io("open", 0)>>
    /\ cache # {}
    /\ reader # <<>> /\ reader[1].endianness = "big"

(***************************************************************************)
(* C25: decoding a block whose section header has a section type other     *)
(* than 1, 2 or 3 returns an 'Unknown bigwig section type' error and       *)
(* contributes no records, for every item_count including 0. So values()   *)
(* over a search with such a block returns an error, and an iteration over *)
(* it does not end without one.                                            *)
(***************************************************************************)
UnknownType(b) == file[b].section_type \notin {1, 2, 3}

C25_UnknownTypeIsError ==
    /\ (rcall.op = "values" /\ \E b \in rcall.blocks : UnknownType(b)) =>
          rcall.ret = "err"
    /\ (rcall.op = "get_interval" /\ \E b \in rcall.blocks : UnknownType(b)) =>
          ~Completed

(***************************************************************************)
(* C26: if the record source returns an I/O error during a call on the     *)
(* grouper or on a sub-stream, the call returns that error and the parser  *)
(* state is not lost: afterwards it is held in exactly one place, the      *)
(* shared cell or one sub-stream, so that a later next() of the grouper    *)
(* finds it.                                                               *)
(***************************************************************************)
\* The places that hold the parser state: 0 is the cell, g sub-stream g.
StatePlaces ==
    (IF cell # <<>> THEN {0} ELSE {})
        \cup {g \in DOMAIN groups : groups[g].curr_state # <<>>}

C26_ErrorKeepsState ==
    [][lastCall'.ret = "err" => Cardinality(StatePlaces') = 1]_vars

(***************************************************************************)
(* C27: at every point in a sub-stream's life, a freshly returned          *)
(* sub-stream before any next() included, peek() shows the record that the *)
(* next() call right after it on that sub-stream returns, and returns none *)
(* exactly when that next() returns none.                                  *)
(***************************************************************************)
\* This step is a next() on the sub-stream whose peek() was the call before it.
NextAfterPeek ==
    /\ lastCall.op = "GroupPeek" /\ lastCall.ret \in {"some", "none"}
    /\ lastCall'.op = "GroupNext" /\ lastCall'.g = lastCall.g
    /\ lastCall'.ret \in {"some", "none"}

C27_PeekIsNext ==
    [][NextAfterPeek => (lastCall'.ret = lastCall.ret /\ lastCall'.val = lastCall.val)]_vars

(***************************************************************************)
(* C28: every record a sub-stream yields belongs to the chromosome whose   *)
(* name the grouper returned together with that sub-stream, for any        *)
(* sequence of calls (a sub-stream used after the grouper has moved on to  *)
(* a later chromosome included) and any record source, one that yields     *)
(* further records after it has reported end-of-stream included.           *)
(***************************************************************************)
C28_YieldsOwnChrom ==
    \A g \in DOMAIN groups : \A k \in DOMAIN groups[g].yielded :
        input[groups[g].yielded[k]].chrom = groups[g].chrom

(***************************************************************************)
(* C29: get_interval(chrom, start, end) never yields a record stored for a *)
(* chromosome other than the one asked for, even when the block search     *)
(* returns a superset of blocks with a block whose section header carries  *)
(* another chrom_id.                                                       *)
(***************************************************************************)
\* The values stored for the chromosome that is queried (each record of a file
\* has a value of its own).
ValuesOfChrom == {StoredOf(QueryChrom)[k].value : k \in DOMAIN StoredOf(QueryChrom)}

C29_YieldsQueriedChromOnly ==
    iter # <<>> => \A k \in DOMAIN Yielded : Yielded[k].value \in ValuesOfChrom
====
